---- MODULE Spec2Model ----
(***************************************************************************)
(* Attribute schema manager of src/actions/product-attributes.ts.          *)
(*                                                                         *)
(* The relational store is the only state: the table                       *)
(* product_attribute_schemas (schemas, nextId), the table product_variants *)
(* (variants, written by code outside this file), the user of the request's *)
(* session (session), the envelope the last server action returned (last)  *)
(* and the requests in flight between two store calls (requests).  A       *)
(* server action is one atomic step, its store calls made in the order of  *)
(* the source, any of which may fail (the `fault` input names the failing  *)
(* call); SpecRace splits Create and Delete at the await between their     *)
(* checks and their write, SpecOptionRace does so for AddOption and        *)
(* RemoveOption.  generateVariantCombinations is a function of its         *)
(* argument alone (SpecGenerate).                                          *)
(***************************************************************************)
EXTENDS Integers, Sequences, FiniteSets, TLC

VARIABLES schemas, nextId, variants, session, last, requests

vars == <<schemas, nextId, variants, session, last, requests>>

(***************************************************************************)
(* Bounds of the model.                                                    *)
(***************************************************************************)
\* ids the identity column hands out in the key-uniqueness specification
MaxKeyRows == 3
\* ids handed out in the options specification and in the all-operations one
MaxRows == 2
\* longest options array a caller passes or AddOption builds
MaxOpts == 2
\* longest list passed to updateAttributeOrder
MaxOrders == 2
\* most keys of a Record passed to generateVariantCombinations
MaxKeys == 2

(***************************************************************************)
(* The tables this file only reads: products -> product_catalogs -> brands *)
(* and the session.                                                        *)
(***************************************************************************)
\* auth.getUser() yields a user or null
NoUser == "anonymous"
Users == {"alice", "bob", NoUser}

\* rows of the products table; 3 is an id with no row
Products == {1, 2}
ProductIds == {1, 2, 3}

\* brands.user_id reached through product.product_catalogs.brands; every
\* product of the model belongs to a brand of alice
brandUserId(p) == "alice"

Keys == {"color", "size"}
Values == {"S", "M"}

(***************************************************************************)
(* Inputs of the server actions: a partial record names the fields given. *)
(***************************************************************************)
Input(id, p, k, opts, given) ==
  [ id |-> id, product_id |-> p, attribute_key |-> k, options |-> opts,
    is_required |-> FALSE, is_variant_defining |-> TRUE, sort_order |-> 0,
    given |-> given ]

(***************************************************************************)
(* Json values of the options column: an array of {value,label} or null.   *)
(***************************************************************************)
Arr(items) == [isNull |-> FALSE, items |-> items]
JsonNull == [isNull |-> TRUE, items |-> <<>>]

Opt(v, l) == [value |-> v, label |-> l]

\* messages of the source
ErrProduct == "Product not found or access denied"
ErrAttribute == "Attribute not found or access denied"
ErrUnauthorized == "Unauthorized"
ErrKeyExists == "Attribute key already exists for this product"
ErrInUse == "Cannot delete attribute that is used by variants"
ErrOrder == "Failed to update attribute order"
ErrNotFound == "Attribute not found"
ErrOptionExists == "Option value already exists"
ErrOptionNotFound == "Option not found"
ErrOptionInUse == "Cannot remove option that is used by variants"
\* error.message of a failed store call
ErrStore == "store error"
\* message of the TypeError raised by a method call on null
ErrTypeError == "Cannot read properties of null"

\* data = null of a query that yields no row
NoRow == [id |-> 0]

\* what the read actions return: the array of getProductAttributes, the row
\* or null of getProductAttributeById, the Record of getAttributeCombinations
\* (also the argument of generateVariantCombinations) and the array of
\* generateVariantCombinations
NoData ==
  [attributes |-> <<>>, attribute |-> NoRow, combinations |-> <<>>,
   generated |-> <<>>]

\* the envelope { success, error } a server action returns; raised: the
\* call ended in an exception instead of returning
Ok(op) ==
  [op |-> op, success |-> TRUE, error |-> "", raised |-> FALSE, data |-> NoData]
Fail(op, msg) ==
  [op |-> op, success |-> FALSE, error |-> msg, raised |-> FALSE, data |-> NoData]

(***************************************************************************)
(* PostgREST queries.                                                      *)
(***************************************************************************)
\* .single(): the row when exactly one row matches, else data = null
\* (zero or several rows give an error, which the callers below ignore)
single(rows) == IF Cardinality(rows) = 1 THEN CHOOSE r \in rows : TRUE ELSE NoRow
Found(row) == row.id # 0

\* from('product_attribute_schemas').select().eq('id', id)
byId(id) == {r \in schemas : r.id = id}

\* .eq('product_id', p).eq('attribute_key', k)
byProductKey(p, k) == {r \in schemas : r.product_id = p /\ r.attribute_key = k}

\* a field of a partial input record
Has(data, f) == f \in data.given

\* the requests that can be in flight at the same time
Callers == {1, 2}

\* a request between two of its store calls: pc names the call it makes
\* next, data is its argument and attribute the row its select returned
Idle == [pc |-> "idle", data |-> Input(0, 1, "", JsonNull, {}), attribute |-> NoRow]

Init ==
  /\ schemas = {}
  /\ nextId = 1
  /\ variants = {}
  /\ session = NoUser
  /\ last = Ok("none")
  /\ requests = [c \in Callers |-> Idle]

(***************************************************************************)
(* createProductAttribute(data).                                           *)
(* fault: "none", or the store call that fails: "owner" (the products      *)
(* select), "auth" (auth.getUser), "lookup" (the uniqueness select),       *)
(* "write" (the insert).                                                   *)
(***************************************************************************)
CreateFaults == {"none", "owner", "auth", "lookup", "write"}

\* the row when is_variant_defining is defaulted with || as the fields
\* around it are: a given false becomes true
insertRowOr(data) ==
  [ id |-> nextId,
    product_id |-> data.product_id,
    attribute_key |-> data.attribute_key,
    options |-> IF Has(data, "options") /\ ~data.options.isNull
                THEN data.options ELSE Arr(<<>>),
    is_required |-> IF Has(data, "is_required") THEN data.is_required ELSE FALSE,
    is_variant_defining |-> IF Has(data, "is_variant_defining")
                            THEN data.is_variant_defining \/ TRUE ELSE TRUE,
    sort_order |-> IF Has(data, "sort_order") THEN data.sort_order ELSE 0,
    created_at |-> nextId ]

\* the row the insert of lines 76-88 builds
insertRow(data) ==
  [ id |-> nextId,
    product_id |-> data.product_id,
    attribute_key |-> data.attribute_key,
    options |-> IF Has(data, "options") /\ ~data.options.isNull
                THEN data.options ELSE Arr(<<>>),
    is_required |-> IF Has(data, "is_required") THEN data.is_required ELSE FALSE,
    is_variant_defining |-> IF Has(data, "is_variant_defining")
                            THEN data.is_variant_defining ELSE TRUE,
    sort_order |-> IF Has(data, "sort_order") THEN data.sort_order ELSE 0,
    \* the column default now(): later inserts get later timestamps
    created_at |-> nextId ]

createProductAttribute(data, fault) ==
  LET op == "createProductAttribute"
      productFound == fault # "owner" /\ data.product_id \in Products
      sessionUser == IF fault = "auth" THEN NoUser ELSE session
      existingAttribute ==
        IF fault = "lookup" THEN NoRow
        ELSE single(byProductKey(data.product_id, data.attribute_key))
  IN
  IF ~productFound THEN
    /\ last' = Fail(op, ErrProduct)
    /\ UNCHANGED <<schemas, nextId, variants, session, requests>>
  ELSE IF sessionUser = NoUser \/ brandUserId(data.product_id) # sessionUser THEN
    /\ last' = Fail(op, ErrUnauthorized)
    /\ UNCHANGED <<schemas, nextId, variants, session, requests>>
  ELSE IF Found(existingAttribute) THEN
    /\ last' = Fail(op, ErrKeyExists)
    /\ UNCHANGED <<schemas, nextId, variants, session, requests>>
  ELSE IF fault = "write" THEN
    /\ last' = Fail(op, ErrStore)
    /\ UNCHANGED <<schemas, nextId, variants, session, requests>>
  ELSE
    /\ schemas' = schemas \cup {insertRow(data)}
    /\ nextId' = nextId + 1
    /\ last' = Ok(op)
    /\ UNCHANGED <<variants, session, requests>>

(***************************************************************************)
(* updateProductAttribute(data), data = { id, ...partial fields }.         *)
(* fault: "owner" (the select of the row with its ownership chain),        *)
(* "auth", "lookup" (the uniqueness select), "write" (the update).         *)
(***************************************************************************)
UpdateFaults == {"none", "owner", "auth", "lookup", "write"}

\* JavaScript truthiness of a string
Truthy(str) == str # ""

\* the select of lines 148-154; with data.product_id undefined the filter
\* is product_id=eq.undefined, which matches no row
updateKeyLookup(data) ==
  IF ~Has(data, "product_id") THEN NoRow
  ELSE single({r \in byProductKey(data.product_id, data.attribute_key) :
                 r.id # data.id})

\* .update(updateData): the given fields replace the row's
updatedRow(row, data) ==
  [ id |-> row.id,
    product_id |-> IF Has(data, "product_id") THEN data.product_id
                   ELSE row.product_id,
    attribute_key |-> IF Has(data, "attribute_key") THEN data.attribute_key
                      ELSE row.attribute_key,
    options |-> IF Has(data, "options") THEN data.options ELSE row.options,
    is_required |-> IF Has(data, "is_required") THEN data.is_required
                    ELSE row.is_required,
    is_variant_defining |-> IF Has(data, "is_variant_defining")
                            THEN data.is_variant_defining
                            ELSE row.is_variant_defining,
    sort_order |-> IF Has(data, "sort_order") THEN data.sort_order
                   ELSE row.sort_order,
    created_at |-> row.created_at ]

updateProductAttribute(data, fault) ==
  LET op == "updateProductAttribute"
      attribute == IF fault = "owner" THEN NoRow ELSE single(byId(data.id))
      sessionUser == IF fault = "auth" THEN NoUser ELSE session
      keyChanges == /\ Has(data, "attribute_key")
                    /\ Truthy(data.attribute_key)
                    /\ data.attribute_key # attribute.attribute_key
      existingAttribute ==
        IF fault = "lookup" THEN NoRow ELSE updateKeyLookup(data)
      \* product_attribute_schemas_product_id_fkey
      fkViolated == Has(data, "product_id") /\ data.product_id \notin Products
  IN
  IF ~Found(attribute) THEN
    /\ last' = Fail(op, ErrAttribute)
    /\ UNCHANGED <<schemas, nextId, variants, session, requests>>
  ELSE IF sessionUser = NoUser \/ brandUserId(attribute.product_id) # sessionUser THEN
    /\ last' = Fail(op, ErrUnauthorized)
    /\ UNCHANGED <<schemas, nextId, variants, session, requests>>
  ELSE IF keyChanges /\ Found(existingAttribute) THEN
    /\ last' = Fail(op, ErrKeyExists)
    /\ UNCHANGED <<schemas, nextId, variants, session, requests>>
  ELSE IF fault = "write" \/ fkViolated THEN
    /\ last' = Fail(op, ErrStore)
    /\ UNCHANGED <<schemas, nextId, variants, session, requests>>
  ELSE
    /\ schemas' = (schemas \ {attribute}) \cup {updatedRow(attribute, data)}
    /\ last' = Ok(op)
    /\ UNCHANGED <<nextId, variants, session, requests>>

(***************************************************************************)
(* deleteProductAttribute(attributeId).                                    *)
(* fault: "owner", "auth", "variants" (the product_variants select),       *)
(* "write" (the delete).                                                   *)
(***************************************************************************)
DeleteFaults == {"none", "owner", "auth", "variants", "write"}

\* lines 231-237: some variant of the product has the key in its attributes
attributeInUse(variantRows, attribute) ==
  \E v \in variantRows :
    /\ v.product_id = attribute.product_id
    /\ attribute.attribute_key \in DOMAIN v.attributes

\* the action when it deletes the row before it looks at the variants
deleteBeforeInUseCheck(attributeId, fault) ==
  LET op == "deleteProductAttribute"
      attribute == IF fault = "owner" THEN NoRow ELSE single(byId(attributeId))
      sessionUser == IF fault = "auth" THEN NoUser ELSE session
      variantsUsingAttribute == IF fault = "variants" THEN {} ELSE variants
  IN
  IF ~Found(attribute) THEN
    /\ last' = Fail(op, ErrAttribute)
    /\ UNCHANGED <<schemas, nextId, variants, session, requests>>
  ELSE IF sessionUser = NoUser \/ brandUserId(attribute.product_id) # sessionUser THEN
    /\ last' = Fail(op, ErrUnauthorized)
    /\ UNCHANGED <<schemas, nextId, variants, session, requests>>
  ELSE IF fault = "write" THEN
    /\ last' = Fail(op, ErrStore)
    /\ UNCHANGED <<schemas, nextId, variants, session, requests>>
  ELSE
    /\ schemas' = schemas \ {attribute}
    /\ last' = IF attributeInUse(variantsUsingAttribute, attribute)
               THEN Fail(op, ErrInUse) ELSE Ok(op)
    /\ UNCHANGED <<nextId, variants, session, requests>>

deleteProductAttribute(attributeId, fault) ==
  LET op == "deleteProductAttribute"
      attribute == IF fault = "owner" THEN NoRow ELSE single(byId(attributeId))
      sessionUser == IF fault = "auth" THEN NoUser ELSE session
      \* data is null when the select fails, and null?.some(...) is undefined
      variantsUsingAttribute == IF fault = "variants" THEN {} ELSE variants
  IN
  IF ~Found(attribute) THEN
    /\ last' = Fail(op, ErrAttribute)
    /\ UNCHANGED <<schemas, nextId, variants, session, requests>>
  ELSE IF sessionUser = NoUser \/ brandUserId(attribute.product_id) # sessionUser THEN
    /\ last' = Fail(op, ErrUnauthorized)
    /\ UNCHANGED <<schemas, nextId, variants, session, requests>>
  ELSE IF attributeInUse(variantsUsingAttribute, attribute) THEN
    /\ last' = Fail(op, ErrInUse)
    /\ UNCHANGED <<schemas, nextId, variants, session, requests>>
  ELSE IF fault = "write" THEN
    /\ last' = Fail(op, ErrStore)
    /\ UNCHANGED <<schemas, nextId, variants, session, requests>>
  ELSE
    /\ schemas' = schemas \ {attribute}
    /\ last' = Ok(op)
    /\ UNCHANGED <<nextId, variants, session, requests>>

(***************************************************************************)
(* updateAttributeOrder(attributeOrders): one update per entry, all issued *)
(* at once and joined by Promise.all.  failing: the positions whose update *)
(* call fails.  An update of an id without a row changes nothing and is no *)
(* error.  Entries for the same id race: either value can be the last.     *)
(***************************************************************************)
\* the writes when a failed update rolls the others back
orderWritesRolledBack(attributeOrders, failing, id) ==
  IF failing \cap DOMAIN attributeOrders # {} THEN {}
  ELSE {attributeOrders[i].sort_order :
          i \in {j \in DOMAIN attributeOrders : attributeOrders[j].id = id}}

\* the writes when the updates are not filtered by id
orderWritesToAll(attributeOrders, failing, id) ==
  {attributeOrders[i].sort_order : i \in DOMAIN attributeOrders \ failing}

\* the sort_order values the updates that went through send to row id
orderWrites(attributeOrders, failing, id) ==
  {attributeOrders[i].sort_order :
     i \in {j \in DOMAIN attributeOrders :
              j \notin failing /\ attributeOrders[j].id = id}}

updateAttributeOrder(attributeOrders, failing) ==
  LET op == "updateAttributeOrder"
      errors == failing \cap DOMAIN attributeOrders
      \* the rows that updates with different values race for
      racing ==
        {r.id : r \in {x \in schemas :
                         Cardinality(orderWrites(attributeOrders, failing, x.id)) > 1}}
      \* sort_order of row r in the end; final: the update that lands last
      \* on each of the racing rows
      written(r, final) ==
        LET writes == orderWrites(attributeOrders, failing, r.id) IN
        IF writes = {} THEN r.sort_order
        ELSE IF r.id \in racing THEN final[r.id]
        ELSE CHOOSE n \in writes : TRUE
  IN
  /\ last' = IF errors # {} THEN Fail(op, ErrOrder) ELSE Ok(op)
  /\ \E final \in [racing -> {attributeOrders[i].sort_order :
                                  i \in DOMAIN attributeOrders}] :
       /\ \A id \in racing : final[id] \in orderWrites(attributeOrders, failing, id)
       /\ schemas' = {[r EXCEPT !.sort_order = written(r, final)] : r \in schemas}
  /\ UNCHANGED <<nextId, variants, session, requests>>

(***************************************************************************)
(* addAttributeOption(attributeId, option).                                *)
(* fault: "fetch" (the select of the row), "write" (the update).           *)
(***************************************************************************)
AddFaults == {"none", "fetch", "write"}

\* the check when it compares whole entries instead of their values
optionExistsByEntry(existingOptions, option) ==
  \E i \in DOMAIN existingOptions : existingOptions[i] = option

\* lines 377-379
optionExists(existingOptions, option) ==
  \E i \in DOMAIN existingOptions : existingOptions[i].value = option.value

\* the new option put in front of the others
prependOption(existingOptions, option) == <<option>> \o existingOptions

\* line 386: [...existingOptions, option]
appendOption(existingOptions, option) == Append(existingOptions, option)

addAttributeOption(attributeId, option, fault) ==
  LET op == "addAttributeOption"
      attribute == IF fault = "fetch" THEN NoRow ELSE single(byId(attributeId))
      existingOptions == attribute.options.items
      updatedOptions == appendOption(existingOptions, option)
  IN
  IF ~Found(attribute) THEN
    /\ last' = Fail(op, ErrNotFound)
    /\ UNCHANGED <<schemas, nextId, variants, session, requests>>
  ELSE IF attribute.options.isNull THEN
    \* existingOptions.some on null throws, the catch returns the message
    /\ last' = Fail(op, ErrTypeError)
    /\ UNCHANGED <<schemas, nextId, variants, session, requests>>
  ELSE IF optionExists(existingOptions, option) THEN
    /\ last' = Fail(op, ErrOptionExists)
    /\ UNCHANGED <<schemas, nextId, variants, session, requests>>
  ELSE IF fault = "write" THEN
    /\ last' = Fail(op, ErrStore)
    /\ UNCHANGED <<schemas, nextId, variants, session, requests>>
  ELSE
    /\ schemas' = (schemas \ {attribute})
                    \cup {[attribute EXCEPT !.options = Arr(updatedOptions)]}
    /\ last' = Ok(op)
    /\ UNCHANGED <<nextId, variants, session, requests>>

(***************************************************************************)
(* removeAttributeOption(attributeId, optionValue).                        *)
(* fault: "fetch", "variants" (the product_variants select), "write".      *)
(***************************************************************************)
RemoveFaults == {"none", "fetch", "variants", "write"}

\* existingOptions.filter((option) => option.value !== optionValue)
RECURSIVE filterOut(_, _)
filterOut(existingOptions, optionValue) ==
  IF existingOptions = <<>> THEN <<>>
  ELSE IF Head(existingOptions).value # optionValue
       THEN <<Head(existingOptions)>> \o filterOut(Tail(existingOptions), optionValue)
       ELSE filterOut(Tail(existingOptions), optionValue)

\* lines 443-446: attrs && attrs[attribute_key] === optionValue
optionInUse(variantRows, attribute, optionValue) ==
  \E v \in variantRows :
    /\ v.product_id = attribute.product_id
    /\ attribute.attribute_key \in DOMAIN v.attributes
    /\ v.attributes[attribute.attribute_key] = optionValue

removeAttributeOption(attributeId, optionValue, fault) ==
  LET op == "removeAttributeOption"
      attribute == IF fault = "fetch" THEN NoRow ELSE single(byId(attributeId))
      existingOptions == attribute.options.items
      updatedOptions == filterOut(existingOptions, optionValue)
      \* data is null when the select fails, and null?.some(...) is undefined
      variantRows == IF fault = "variants" THEN {} ELSE variants
  IN
  IF ~Found(attribute) THEN
    /\ last' = Fail(op, ErrNotFound)
    /\ UNCHANGED <<schemas, nextId, variants, session, requests>>
  ELSE IF attribute.options.isNull THEN
    \* existingOptions.filter on null throws, the catch returns the message
    /\ last' = Fail(op, ErrTypeError)
    /\ UNCHANGED <<schemas, nextId, variants, session, requests>>
  ELSE IF Len(updatedOptions) = Len(existingOptions) THEN
    /\ last' = Fail(op, ErrOptionNotFound)
    /\ UNCHANGED <<schemas, nextId, variants, session, requests>>
  ELSE IF optionInUse(variantRows, attribute, optionValue) THEN
    /\ last' = Fail(op, ErrOptionInUse)
    /\ UNCHANGED <<schemas, nextId, variants, session, requests>>
  ELSE IF fault = "write" THEN
    /\ last' = Fail(op, ErrStore)
    /\ UNCHANGED <<schemas, nextId, variants, session, requests>>
  ELSE
    /\ schemas' = (schemas \ {attribute})
                    \cup {[attribute EXCEPT !.options = Arr(updatedOptions)]}
    /\ last' = Ok(op)
    /\ UNCHANGED <<nextId, variants, session, requests>>

(***************************************************************************)
(* The read actions return their data, not an envelope: last.data holds    *)
(* what was returned and last.error what console.error logged.             *)
(***************************************************************************)
Returned(op, data, logged) ==
  [op |-> op, success |-> TRUE, error |-> logged, raised |-> FALSE, data |-> data]

\* the order when only sort_order is compared
beforeBySortOrder(r1, r2) == r1.sort_order < r2.sort_order

\* .order('sort_order').order('created_at'): row r1 sorts before row r2
before(r1, r2) ==
  \/ r1.sort_order < r2.sort_order
  \/ r1.sort_order = r2.sort_order /\ r1.created_at < r2.created_at

\* the sorted sequence with row r put in its place
RECURSIVE insertSorted(_, _)
insertSorted(seq, r) ==
  IF seq = <<>> THEN <<r>>
  ELSE IF before(r, Head(seq)) THEN <<r>> \o seq
  ELSE <<Head(seq)>> \o insertSorted(Tail(seq), r)

\* the rows of a select in the order of its ORDER BY
RECURSIVE orderRows(_)
orderRows(rows) ==
  IF rows = {} THEN <<>>
  ELSE LET r == CHOOSE x \in rows : TRUE
       IN insertSorted(orderRows(rows \ {r}), r)

\* lines 274-279: select('*').eq('product_id', productId).order(...).order(...)
selectAttributes(productId) ==
  orderRows({r \in schemas : r.product_id = productId})

\* getProductAttributes(productId); fails: the select fails, the catch
\* returns []
getProductAttributes(productId, fails) ==
  LET op == "getProductAttributes" IN
  /\ last' = IF fails THEN Returned(op, NoData, ErrStore)
             ELSE Returned(op, [NoData EXCEPT !.attributes = selectAttributes(productId)], "")
  /\ UNCHANGED <<schemas, nextId, variants, session, requests>>

\* getProductAttributeById(attributeId); .single() gives an error when no
\* row matches, and the action returns null on any error
getProductAttributeById(attributeId, fails) ==
  LET op == "getProductAttributeById"
      attribute == IF fails THEN NoRow ELSE single(byId(attributeId))
  IN
  /\ last' = Returned(op, [NoData EXCEPT !.attribute = attribute],
                      IF Found(attribute) THEN "" ELSE ErrStore)
  /\ UNCHANGED <<schemas, nextId, variants, session, requests>>

(***************************************************************************)
(* A Record<string, T> is a JavaScript object: the sequence of its         *)
(* properties [key, values] in the order Object.keys and for-in visit     *)
(* them, which is the keys that are array indices ("1", "2") in ascending  *)
(* numeric order and then the other keys in the order they were created.   *)
(***************************************************************************)
\* the keys of the model that are canonical array indices, with their value
ArrayIndex == [k \in {"1", "2"} |-> IF k = "1" THEN 1 ELSE 2]
isArrayIndex(k) == k \in DOMAIN ArrayIndex

\* Object.keys(record)
ObjectKeys(record) == [i \in DOMAIN record |-> record[i].key]

\* record[key] = values: an existing property keeps its place
setProperty(record, key, values) ==
  LET property == [key |-> key, values |-> values]
      \* the existing property e stays in front of a new property key
      staysInFront(e) ==
        IF isArrayIndex(key)
        THEN isArrayIndex(e.key) /\ ArrayIndex[e.key] < ArrayIndex[key]
        ELSE TRUE
      n == Cardinality({i \in DOMAIN record : staysInFront(record[i])})
  IN
  IF \E i \in DOMAIN record : record[i].key = key
  THEN [i \in DOMAIN record |->
          IF record[i].key = key THEN property ELSE record[i]]
  ELSE SubSeq(record, 1, n) \o <<property>> \o SubSeq(record, n + 1, Len(record))

\* lines 486-487: attr.options.map((option) => option.value)
valuesOf(options) == [i \in DOMAIN options.items |-> options.items[i].value]

\* lines 483-488: combinations[attr.attribute_key] = ... for each row in
\* the order of the list, a later row of the same key replacing the values
\* of an earlier one
RECURSIVE combinationsOf(_)
combinationsOf(attributes) ==
  IF attributes = <<>> THEN <<>>
  ELSE LET n == Len(attributes) IN
       setProperty(combinationsOf(SubSeq(attributes, 1, n - 1)),
                   attributes[n].attribute_key,
                   valuesOf(attributes[n].options))

\* getAttributeCombinations(productId): the inner getProductAttributes
\* returns [] when its select fails; options.map on null options throws and
\* the catch returns {}
getAttributeCombinations(productId, fails) ==
  LET op == "getAttributeCombinations"
      attributes == IF fails THEN <<>> ELSE selectAttributes(productId)
      throws == \E i \in DOMAIN attributes : attributes[i].options.isNull
  IN
  /\ last' = IF throws THEN Returned(op, NoData, ErrTypeError)
             ELSE Returned(op, [NoData EXCEPT !.combinations = combinationsOf(attributes)],
                           IF fails THEN ErrStore ELSE "")
  /\ UNCHANGED <<schemas, nextId, variants, session, requests>>

(***************************************************************************)
(* generateVariantCombinations(attributes): lines 500-530.  It awaits      *)
(* nothing and has no try block.                                           *)
(***************************************************************************)
\* currentCombination[currentKey] = value
assign(currentCombination, currentKey, value) ==
  [k \in DOMAIN currentCombination \cup {currentKey} |->
     IF k = currentKey THEN value ELSE currentCombination[k]]

RECURSIVE generateCombination(_, _, _)
RECURSIVE forValuesBackwards(_, _, _, _)
RECURSIVE forValues(_, _, _, _)

\* lines 506-526; depth counts from 0 as in the source.  The results the
\* call pushes, in the order it pushes them.
generateCombination(attributes, currentCombination, depth) ==
  LET keys == ObjectKeys(attributes) IN
  IF depth = Len(keys) THEN <<currentCombination>>
  ELSE LET currentKey == keys[depth + 1] IN
       \* if (!currentKey) return
       IF ~Truthy(currentKey) THEN <<>>
       ELSE forValues(attributes, currentCombination, depth,
                      attributes[depth + 1].values)

\* the loop when it takes the values from the last to the first
forValuesBackwards(attributes, currentCombination, depth, values) ==
  IF values = <<>> THEN <<>>
  ELSE forValuesBackwards(attributes, currentCombination, depth, Tail(values))
       \o generateCombination(
            attributes,
            assign(currentCombination, ObjectKeys(attributes)[depth + 1], Head(values)),
            depth + 1)

\* lines 521-524: for (const value of values)
forValues(attributes, currentCombination, depth, values) ==
  IF values = <<>> THEN <<>>
  ELSE generateCombination(
         attributes,
         assign(currentCombination, ObjectKeys(attributes)[depth + 1], Head(values)),
         depth + 1)
       \o forValues(attributes, currentCombination, depth, Tail(values))

\* lines 503-504 and 528-529; last.data.combinations keeps the argument
generateVariantCombinations(attributes) ==
  /\ last' = Returned("generateVariantCombinations",
                      [NoData EXCEPT !.combinations = attributes,
                                     !.generated = generateCombination(attributes, <<>>, 0)],
                      "")
  /\ UNCHANGED <<schemas, nextId, variants, session, requests>>

(***************************************************************************)
(* Every server action awaits createClient() before its try block (lines   *)
(* 31, 112, 191, 326, 361, 413): when that promise rejects, the exception  *)
(* leaves the action and none of its store calls is made.                  *)
(***************************************************************************)
ErrClient == "createClient failed"

\* the call ends in the exception instead of returning an envelope
Raise(op, msg) ==
  [op |-> op, success |-> FALSE, error |-> msg, raised |-> TRUE, data |-> NoData]

\* body: the try block of the action
createClient(op, rejects, body) ==
  IF rejects THEN
    /\ last' = Raise(op, ErrClient)
    /\ UNCHANGED <<schemas, nextId, variants, session, requests>>
  ELSE body

(***************************************************************************)
(* The product_variants table is written by the variant actions, which are *)
(* not part of this file: any table of the model can replace the current   *)
(* one.                                                                    *)
(***************************************************************************)
\* attribute maps with at most one key
AttrMaps ==
  UNION {[ks -> Values] : ks \in {{}} \cup {{k} : k \in Keys}}

\* the session cookie changes when a user signs in or out
signIn(user) ==
  /\ session' = user
  /\ UNCHANGED <<schemas, nextId, variants, last, requests>>

writeVariants(table) ==
  /\ variants' = table
  /\ UNCHANGED <<schemas, nextId, session, last, requests>>

(***************************************************************************)
(* SpecKeys: Create, Update and Delete calls, one after the other, on rows *)
(* that differ in product and key, with variants coming and going.         *)
(***************************************************************************)
\* an update may give attribute_key, product_id, both or neither
KeyUpdateInputs ==
  {Input(id, 1, "color", Arr(<<>>), {}) : id \in 1..MaxKeyRows}
    \cup {Input(id, 1, k, Arr(<<>>), {"attribute_key"}) :
            id \in 1..MaxKeyRows, k \in Keys}
    \cup {Input(id, p, "color", Arr(<<>>), {"product_id"}) :
            id \in 1..MaxKeyRows, p \in ProductIds}
    \cup {Input(id, p, k, Arr(<<>>), {"attribute_key", "product_id"}) :
            id \in 1..MaxKeyRows, p \in ProductIds, k \in Keys}

\* no variant, or one variant of a product with at most one attribute
KeyVariantTables ==
  {{}} \cup {{[id |-> 1, product_id |-> p, attributes |-> a]} :
               p \in Products, a \in {m \in AttrMaps : \A k \in DOMAIN m : m[k] = "S"}}

KeysSignIn == \E user \in Users : signIn(user)

KeysCreate ==
  /\ nextId <= MaxKeyRows
  /\ \E p \in ProductIds, k \in Keys, fault \in CreateFaults :
       createProductAttribute(
         Input(0, p, k, Arr(<<>>), {"product_id", "attribute_key"}), fault)

KeysUpdate ==
  \E data \in KeyUpdateInputs, fault \in UpdateFaults :
    updateProductAttribute(data, fault)

KeysDelete ==
  \E id \in 1..MaxKeyRows, fault \in DeleteFaults :
    deleteProductAttribute(id, fault)

KeysVariants == \E table \in KeyVariantTables : writeVariants(table)

NextKeys == KeysSignIn \/ KeysCreate \/ KeysUpdate \/ KeysDelete \/ KeysVariants

SpecKeys == Init /\ [][NextKeys]_vars

(***************************************************************************)
(* Claims on key uniqueness and on the delete guard (SpecKeys).            *)
(***************************************************************************)
\* the session user owns the brand of product p
Owns(p) == p \in Products /\ session # NoUser /\ session = brandUserId(p)

KeyCreateInput(p, k) == Input(0, p, k, Arr(<<>>), {"product_id", "attribute_key"})

NoDuplicateKeys ==
  \A r1 \in schemas, r2 \in schemas :
    (r1.product_id = r2.product_id /\ r1.attribute_key = r2.attribute_key)
      => r1 = r2

\* C1: a create by the owner, none of whose store calls fails, of a
\* (product_id, attribute_key) pair that some row already has returns
\* success:false with 'Attribute key already exists for this product' and
\* inserts nothing; when the key exists only under another product it
\* succeeds and inserts exactly one row.
C1_CreateUniqueness ==
  [][\A p \in Products, k \in Keys :
       (createProductAttribute(KeyCreateInput(p, k), "none") /\ Owns(p))
         => /\ byProductKey(p, k) # {}
                 => /\ ~last'.success
                    /\ last'.error = ErrKeyExists
                    /\ schemas' = schemas
            /\ (byProductKey(p, k) = {}
                  /\ \E r \in schemas : r.attribute_key = k)
                 => /\ last'.success
                    /\ schemas \subseteq schemas'
                    /\ Cardinality(schemas' \ schemas) = 1]_vars

\* C2: from a table without duplicates, a Create, Update or Delete call
\* none of whose store calls fails leads to a table in which no two rows
\* share (product_id, attribute_key).
C2_KeyUniquenessKept ==
  [][((\/ \E p \in ProductIds, k \in Keys :
             createProductAttribute(KeyCreateInput(p, k), "none")
       \/ \E data \in KeyUpdateInputs : updateProductAttribute(data, "none")
       \/ \E id \in 1..MaxKeyRows : deleteProductAttribute(id, "none"))
      /\ NoDuplicateKeys)
       => NoDuplicateKeys']_vars

\* the product an update leaves the row in
targetProduct(row, data) ==
  IF Has(data, "product_id") THEN data.product_id ELSE row.product_id

\* C3: an update by the owner, none of whose store calls fails, that
\* changes attribute_key to a key another row of the target product has
\* (the supplied product_id, else the row's own) fails with 'Attribute key
\* already exists for this product' and leaves the table unchanged.
C3_UpdateKeyRecheck ==
  [][\A data \in KeyUpdateInputs :
       \A row \in byId(data.id) :
         (/\ updateProductAttribute(data, "none")
          /\ Owns(row.product_id)
          /\ Has(data, "attribute_key")
          /\ data.attribute_key # row.attribute_key
          /\ \E r \in schemas :
               /\ r.id # row.id
               /\ r.product_id = targetProduct(row, data)
               /\ r.attribute_key = data.attribute_key)
           => /\ ~last'.success
              /\ last'.error = ErrKeyExists
              /\ schemas' = schemas]_vars

\* C4: a delete by the owner of a row whose key some variant of the row's
\* product has in its attributes fails and removes nothing (with 'Cannot
\* delete attribute that is used by variants' when the row was read); when
\* no variant of the product has the key and no store call fails, it
\* succeeds and the row is gone.
C4_DeleteInUseGuard ==
  [][\A id \in 1..MaxKeyRows, fault \in DeleteFaults :
       \A row \in byId(id) :
         (deleteProductAttribute(id, fault) /\ Owns(row.product_id))
           => /\ attributeInUse(variants, row)
                   => /\ ~last'.success
                      /\ schemas' = schemas
                      /\ fault \notin {"owner", "auth"} => last'.error = ErrInUse
              /\ (~attributeInUse(variants, row) /\ fault = "none")
                   => /\ last'.success
                      /\ schemas' = schemas \ {row}]_vars

(***************************************************************************)
(* SpecOptions: the owner is signed in and creates rows of product 1,      *)
(* replaces their options through Update and adds and removes single       *)
(* options; the variant table is the same throughout a behaviour.          *)
(***************************************************************************)
SeqsUpTo(S, n) == UNION {[1..m -> S] : m \in 0..n}

\* the {value,label} entries a caller passes
OptionInputs == {Opt("S", "Small"), Opt("M", "Medium")}

\* the entries passed to addAttributeOption: also a second label for "S"
AddInputs == OptionInputs \cup {Opt("S", "Short")}

\* the options a caller passes to Create or Update
OptionArrays == {Arr(items) : items \in SeqsUpTo(OptionInputs, MaxOpts)} \cup {JsonNull}

\* no variant, or one variant with one attribute: of product 1 with a color
\* or a size, or of product 2
OptionVariantTables ==
  { {},
    {[id |-> 1, product_id |-> 1, attributes |-> [k \in {"color"} |-> "S"]]},
    {[id |-> 1, product_id |-> 1, attributes |-> [k \in {"size"} |-> "M"]]},
    {[id |-> 1, product_id |-> 2, attributes |-> [k \in {"color"} |-> "S"]]} }

InitOptions ==
  /\ schemas = {}
  /\ nextId = 1
  /\ variants \in OptionVariantTables
  /\ session = "alice"
  /\ last = Ok("none")
  /\ requests = [c \in Callers |-> Idle]

OptionsCreateInputs ==
  {Input(0, 1, k, Arr(<<>>), {"product_id", "attribute_key"}) : k \in Keys}
    \cup {Input(0, 1, k, opts, {"product_id", "attribute_key", "options"}) :
            k \in Keys, opts \in OptionArrays}

OptionsUpdateInputs ==
  {Input(id, 1, "color", opts, {"options"}) :
     id \in 1..MaxRows, opts \in OptionArrays}

OptionsCreate ==
  /\ nextId <= MaxRows
  /\ \E data \in OptionsCreateInputs : createProductAttribute(data, "none")

OptionsUpdate ==
  \E data \in OptionsUpdateInputs : updateProductAttribute(data, "none")

OptionsAdd ==
  \E id \in 1..MaxRows, option \in AddInputs, fault \in AddFaults :
    addAttributeOption(id, option, fault)

OptionsRemove ==
  \E id \in 1..MaxRows, optionValue \in Values, fault \in RemoveFaults :
    removeAttributeOption(id, optionValue, fault)

NextOptions == OptionsCreate \/ OptionsUpdate \/ OptionsAdd \/ OptionsRemove

SpecOptions == InitOptions /\ [][NextOptions]_vars

(***************************************************************************)
(* Claims on options (SpecOptions).                                        *)
(***************************************************************************)
\* value v is the value of some entry of a Json options array
HasValue(options, v) ==
  ~options.isNull /\ \E i \in DOMAIN options.items : options.items[i].value = v

\* the sequence without its i-th entry
dropAt(items, i) ==
  [j \in 1..(Len(items) - 1) |-> IF j < i THEN items[j] ELSE items[j + 1]]

\* C5: removing a value that is among the row's options and that some
\* variant of the row's product has for the row's key fails and leaves the
\* table unchanged, with 'Cannot remove option that is used by variants'
\* when the row was read.
C5_RemoveInUseGuard ==
  [][\A id \in 1..MaxRows, v \in Values, fault \in RemoveFaults :
       \A row \in byId(id) :
         (/\ removeAttributeOption(id, v, fault)
          /\ HasValue(row.options, v)
          /\ optionInUse(variants, row, v))
           => /\ ~last'.success
              /\ schemas' = schemas
              /\ fault # "fetch" => last'.error = ErrOptionInUse]_vars

\* C6: removing, with no store call failing, a value that is among the
\* row's options and that no variant of the product uses succeeds and
\* leaves the options with exactly one entry dropped, the others in place.
C6_RemoveOneEntry ==
  [][\A id \in 1..MaxRows, v \in Values :
       \A row \in byId(id) :
         (/\ removeAttributeOption(id, v, "none")
          /\ HasValue(row.options, v)
          /\ ~optionInUse(variants, row, v))
           => /\ last'.success
              /\ \E i \in DOMAIN row.options.items :
                   /\ row.options.items[i].value = v
                   /\ schemas' = (schemas \ {row}) \cup
                        {[row EXCEPT !.options = Arr(dropAt(row.options.items, i))]}]_vars

\* C7: adding an option whose value some entry of the row's options has
\* fails, with 'Option value already exists' when the row was read, and
\* leaves the table unchanged.
C7_AddDuplicateGuard ==
  [][last'.op = "addAttributeOption" =>
       \A row \in schemas, option \in AddInputs :
         HasValue(row.options, option.value) =>
           \A fault \in AddFaults :
             addAttributeOption(row.id, option, fault)
               => /\ ~last'.success
                  /\ schemas' = schemas
                  /\ fault # "fetch" => last'.error = ErrOptionExists]_vars

\* an add was refused as a duplicate of an entry with another label
C7_Witness ==
  /\ last.op = "addAttributeOption"
  /\ last.error = ErrOptionExists
  /\ \E r \in schemas : r.options = Arr(<<Opt("S", "Small")>>)
  /\ \A r \in schemas : ~HasValue(r.options, "M")

\* C8: no stored options array holds two entries with the same value.
C8_OptionValuesUnique ==
  \A r \in schemas :
    \A i \in DOMAIN r.options.items, j \in DOMAIN r.options.items :
      r.options.items[i].value = r.options.items[j].value => i = j

\* C9: a successful Update, AddOption or RemoveOption none of whose store
\* calls fails never takes away from a row's options a value that a
\* variant of the row's product has for the row's key.
C9_InUseValueKept ==
  [][((\/ \E data \in OptionsUpdateInputs : updateProductAttribute(data, "none")
       \/ \E id \in 1..MaxRows, option \in AddInputs :
            addAttributeOption(id, option, "none")
       \/ \E id \in 1..MaxRows, v \in Values :
            removeAttributeOption(id, v, "none"))
      /\ last'.success)
       => \A r \in schemas, r2 \in schemas' :
            r2.id = r.id =>
              \A v \in Values :
                (HasValue(r.options, v) /\ optionInUse(variants, r, v))
                  => HasValue(r2.options, v)]_vars

\* C20: a successful addAttributeOption(attributeId, option) leaves the
\* row's options one entry longer, the entries it had in their places and
\* the new entry last, and every other row as it was.
C20_AddAppends ==
  [][last'.op = "addAttributeOption" =>
       \A row \in schemas, option \in AddInputs, fault \in AddFaults :
         (last'.success /\ addAttributeOption(row.id, option, fault))
           => /\ \A r \in schemas \ {row} : r \in schemas'
              /\ \E r2 \in schemas' :
                   /\ r2 = [row EXCEPT !.options = r2.options]
                   /\ ~r2.options.isNull
                   /\ Len(r2.options.items) = Len(row.options.items) + 1
                   /\ r2.options.items[Len(r2.options.items)] = option
                   /\ \A i \in DOMAIN row.options.items :
                        r2.options.items[i] = row.options.items[i]
                   /\ schemas' = (schemas \ {row}) \cup {r2}]_vars

\* an add has put 'S' (with a label only addAttributeOption is given)
\* behind an 'M' the row had
C20_Witness ==
  /\ last.op = "addAttributeOption"
  /\ last.success
  /\ \E r \in schemas :
       r.options = Arr(<<Opt("M", "Medium"), Opt("S", "Short")>>)

\* C21: removeAttributeOption of an id without a row fails with 'Attribute
\* not found', and of a value that no entry of the row's options has with
\* 'Option not found' (or 'Attribute not found' when the row was not read),
\* also when a variant of the product uses that value; the table is left
\* unchanged.
C21_RemoveNotFound ==
  [][last'.op = "removeAttributeOption" =>
       \A id \in 1..MaxRows, v \in Values, fault \in RemoveFaults :
         removeAttributeOption(id, v, fault) =>
           /\ byId(id) = {}
                => /\ ~last'.success
                   /\ last'.error = ErrNotFound
                   /\ schemas' = schemas
           /\ \A row \in byId(id) :
                ~HasValue(row.options, v)
                  => /\ ~last'.success
                     /\ last'.error =
                          IF fault = "fetch" THEN ErrNotFound ELSE ErrOptionNotFound
                     /\ schemas' = schemas]_vars

(***************************************************************************)
(* Spec: the six mutating server actions, called in any session, one after *)
(* the other, on rows of product 1; no store call fails and there are no   *)
(* variants.                                                               *)
(***************************************************************************)
SortOrders == {0, 1}

\* the lists passed to updateAttributeOrder
OrderLists ==
  SeqsUpTo({[id |-> id, sort_order |-> n] : id \in 1..MaxRows, n \in SortOrders},
           MaxOrders)

\* product 1 has a row in products, product 3 has none
CreateInputs ==
  {Input(0, p, k, Arr(<<>>), {"product_id", "attribute_key"}) :
     p \in {1, 3}, k \in Keys}

UpdateInputs ==
  {Input(id, 1, k, Arr(<<>>), {"attribute_key"}) : id \in 1..MaxRows, k \in Keys}

SignIn == \E user \in Users : signIn(user)

Create ==
  /\ nextId <= MaxRows
  /\ \E data \in CreateInputs : createProductAttribute(data, "none")

Update == \E data \in UpdateInputs : updateProductAttribute(data, "none")

Delete == \E id \in 1..MaxRows : deleteProductAttribute(id, "none")

Reorder ==
  \E attributeOrders \in OrderLists : updateAttributeOrder(attributeOrders, {})

AddOption ==
  \E id \in 1..MaxRows : addAttributeOption(id, Opt("S", "Small"), "none")

RemoveOption ==
  \E id \in 1..MaxRows : removeAttributeOption(id, "S", "none")

Next ==
  \/ SignIn \/ Create \/ Update \/ Delete \/ Reorder \/ AddOption \/ RemoveOption

Spec == Init /\ [][Next]_vars

\* the session user owns no brand
Stranger == \A p \in Products : session # brandUserId(p)

\* C10: a mutating action (Create, Update, Delete, updateAttributeOrder,
\* AddOption, RemoveOption) called by a user who is not signed in or owns
\* no brand leaves the table unchanged.
C10_Authorization ==
  [][(/\ Stranger
      /\ \/ \E data \in CreateInputs : createProductAttribute(data, "none")
         \/ \E data \in UpdateInputs : updateProductAttribute(data, "none")
         \/ \E id \in 1..MaxRows : deleteProductAttribute(id, "none")
         \/ \E attributeOrders \in OrderLists :
              updateAttributeOrder(attributeOrders, {})
         \/ \E id \in 1..MaxRows : addAttributeOption(id, Opt("S", "Small"), "none")
         \/ \E id \in 1..MaxRows : removeAttributeOption(id, "S", "none"))
       => schemas' = schemas]_vars

\* C11: for a signed-in caller who owns no brand, the envelope Create,
\* Update or Delete returns for a target of another owner is the envelope
\* it returns for a target that does not exist: the step taken on the
\* existing target is also the step of the same call on a missing one.
C11_NoExistenceLeak ==
  [][(session # NoUser /\ Stranger) =>
       /\ \A k \in Keys :
            createProductAttribute(KeyCreateInput(1, k), "none")
              => createProductAttribute(KeyCreateInput(3, k), "none")
       /\ \A id \in 1..MaxRows, missing \in 1..(MaxRows + 1), k \in Keys :
            (/\ byId(id) # {}
             /\ byId(missing) = {}
             /\ updateProductAttribute(
                  Input(id, 1, k, Arr(<<>>), {"attribute_key"}), "none"))
              => updateProductAttribute(
                   Input(missing, 1, k, Arr(<<>>), {"attribute_key"}), "none")
       /\ \A id \in 1..MaxRows, missing \in 1..(MaxRows + 1) :
            (/\ byId(id) # {}
             /\ byId(missing) = {}
             /\ deleteProductAttribute(id, "none"))
              => deleteProductAttribute(missing, "none")]_vars

(***************************************************************************)
(* SpecFaults: the owner calls the six mutating actions on rows of product *)
(* 1; createClient may reject and any store call of an action may fail;    *)
(* Update can store null options; the variant table is the same throughout *)
(* a behaviour.                                                            *)
(***************************************************************************)
FaultVariantTables ==
  { {},
    {[id |-> 1, product_id |-> 1, attributes |-> [k \in {"color"} |-> "S"]]} }

InitFaults ==
  /\ schemas = {}
  /\ nextId = 1
  /\ variants \in FaultVariantTables
  /\ session = "alice"
  /\ last = Ok("none")
  /\ requests = [c \in Callers |-> Idle]

FaultCreateInputs ==
  {Input(0, 1, k, opts, {"product_id", "attribute_key", "options"}) :
     k \in Keys, opts \in {Arr(<<>>), Arr(<<Opt("S", "Small")>>)}}

\* an update of the key, or one that stores null options
FaultUpdateInputs ==
  {Input(id, 1, k, Arr(<<>>), {"product_id", "attribute_key"}) :
     id \in 1..MaxRows, k \in Keys}
    \cup {Input(id, 1, "color", JsonNull, {"options"}) : id \in 1..MaxRows}

\* lists of at most one entry
FaultOrderLists ==
  SeqsUpTo({[id |-> id, sort_order |-> n] : id \in 1..MaxRows, n \in SortOrders}, 1)

FaultsCreate ==
  /\ nextId <= MaxRows
  /\ \E data \in FaultCreateInputs, fault \in CreateFaults, rejects \in BOOLEAN :
       createClient("createProductAttribute", rejects,
                    createProductAttribute(data, fault))

FaultsUpdate ==
  \E data \in FaultUpdateInputs, fault \in UpdateFaults, rejects \in BOOLEAN :
    createClient("updateProductAttribute", rejects,
                 updateProductAttribute(data, fault))

FaultsDelete ==
  \E id \in 1..MaxRows, fault \in DeleteFaults, rejects \in BOOLEAN :
    createClient("deleteProductAttribute", rejects,
                 deleteProductAttribute(id, fault))

FaultsReorder ==
  \E attributeOrders \in FaultOrderLists, failing \in SUBSET {1},
     rejects \in BOOLEAN :
    createClient("updateAttributeOrder", rejects,
                 updateAttributeOrder(attributeOrders, failing))

FaultsAdd ==
  \E id \in 1..MaxRows, fault \in AddFaults, rejects \in BOOLEAN :
    createClient("addAttributeOption", rejects,
                 addAttributeOption(id, Opt("S", "Small"), fault))

FaultsRemove ==
  \E id \in 1..MaxRows, fault \in RemoveFaults, rejects \in BOOLEAN :
    createClient("removeAttributeOption", rejects,
                 removeAttributeOption(id, "S", fault))

NextFaults ==
  \/ FaultsCreate \/ FaultsUpdate \/ FaultsDelete
  \/ FaultsReorder \/ FaultsAdd \/ FaultsRemove

SpecFaults == InitFaults /\ [][NextFaults]_vars

\* C12: every mutating action ends by returning {success:true} or
\* {success:false, error}: no call ends in an exception, whichever step
\* fails (createClient, auth.getUser, a store call, options stored as null).
C12_UniformEnvelope ==
  /\ ~last.raised
  /\ last.success \/ last.error # ""

\* the step returns success:false and writes nothing
Refused ==
  /\ ~last'.success
  /\ schemas' = schemas

\* C13: when a store call of the owner's action fails, the action returns
\* success:false and writes nothing: the select of the target; the
\* uniqueness select of Create and Update on a key another row of the
\* product has; the variants select of Delete and RemoveOption on a key or
\* value a variant uses; the write itself, reached when the checks before
\* it pass.  For the selects after the first and for the write the error is
\* the store's message.
C13_StoreFailurePropagates ==
  [][/\ \A data \in FaultCreateInputs, fault \in {"owner", "lookup", "write"} :
          (/\ createProductAttribute(data, fault)
           /\ Owns(data.product_id)
           /\ fault = "lookup"
                => byProductKey(data.product_id, data.attribute_key) # {}
           /\ fault = "write"
                => byProductKey(data.product_id, data.attribute_key) = {})
            => Refused /\ (fault # "owner" => last'.error = ErrStore)
     /\ \A data \in FaultUpdateInputs, fault \in {"owner", "lookup", "write"} :
          \A row \in byId(data.id) :
            (/\ updateProductAttribute(data, fault)
             /\ Owns(row.product_id)
             /\ Has(data, "attribute_key")
             /\ data.attribute_key # row.attribute_key
             /\ fault = "lookup"
                  => byProductKey(data.product_id, data.attribute_key) # {}
             /\ fault = "write"
                  => byProductKey(data.product_id, data.attribute_key) = {})
              => Refused /\ (fault # "owner" => last'.error = ErrStore)
     /\ \A id \in 1..MaxRows, fault \in {"owner", "variants", "write"} :
          \A row \in byId(id) :
            (/\ deleteProductAttribute(id, fault)
             /\ Owns(row.product_id)
             /\ fault = "variants" => attributeInUse(variants, row)
             /\ fault = "write" => ~attributeInUse(variants, row))
              => Refused /\ (fault # "owner" => last'.error = ErrStore)
     /\ \A id \in 1..MaxRows, fault \in {"fetch", "write"} :
          \A row \in byId(id) :
            (/\ addAttributeOption(id, Opt("S", "Small"), fault)
             /\ ~row.options.isNull
             /\ fault = "write" => ~HasValue(row.options, "S"))
              => Refused /\ (fault # "fetch" => last'.error = ErrStore)
     /\ \A id \in 1..MaxRows, fault \in {"fetch", "variants", "write"} :
          \A row \in byId(id) :
            (/\ removeAttributeOption(id, "S", fault)
             /\ fault # "fetch" => HasValue(row.options, "S")
             /\ fault = "variants" => optionInUse(variants, row, "S")
             /\ fault = "write" => ~optionInUse(variants, row, "S"))
              => Refused /\ (fault # "fetch" => last'.error = ErrStore)]_vars

(***************************************************************************)
(* SpecReads: the owner creates rows of both products with a sort_order    *)
(* and may store null options through Update; getProductAttributes,        *)
(* getProductAttributeById and getAttributeCombinations are called in      *)
(* between; their select may fail and createClient may reject.             *)
(***************************************************************************)
InitReads ==
  /\ schemas = {}
  /\ nextId = 1
  /\ variants = {}
  /\ session = "alice"
  /\ last = Ok("none")
  /\ requests = [c \in Callers |-> Idle]

ReadCreateInputs ==
  {[Input(0, p, k, Arr(<<Opt("S", "Small")>>),
          {"product_id", "attribute_key", "options", "sort_order"})
      EXCEPT !.sort_order = n] :
     p \in Products, k \in Keys, n \in SortOrders}

ReadUpdateInputs ==
  {Input(id, 1, "color", JsonNull, {"options"}) : id \in 1..MaxRows}

ReadsCreate ==
  /\ nextId <= MaxRows
  /\ \E data \in ReadCreateInputs : createProductAttribute(data, "none")

ReadsUpdate ==
  \E data \in ReadUpdateInputs : updateProductAttribute(data, "none")

ReadsList ==
  \E productId \in ProductIds, fails \in BOOLEAN, rejects \in BOOLEAN :
    createClient("getProductAttributes", rejects,
                 getProductAttributes(productId, fails))

ReadsGetById ==
  \E attributeId \in 1..(MaxRows + 1), fails \in BOOLEAN, rejects \in BOOLEAN :
    createClient("getProductAttributeById", rejects,
                 getProductAttributeById(attributeId, fails))

ReadsCombinations ==
  \E productId \in ProductIds, fails \in BOOLEAN, rejects \in BOOLEAN :
    createClient("getAttributeCombinations", rejects,
                 getAttributeCombinations(productId, fails))

NextReads ==
  \/ ReadsCreate \/ ReadsUpdate \/ ReadsList \/ ReadsGetById \/ ReadsCombinations

SpecReads == InitReads /\ [][NextReads]_vars

\* C14: a getProductAttributes(productId) whose select does not fail
\* returns each row of the product once and no other row, every row
\* sorting before the next by sort_order and, among equal sort_order, by
\* created_at; it leaves the table as it is, and two such calls for one
\* product that follow each other return the same sequence.
C14_ListOrdering ==
  [][last'.op = "getProductAttributes" =>
       \A productId \in ProductIds :
         getProductAttributes(productId, FALSE) =>
           LET attributes == last'.data.attributes IN
           /\ {attributes[i] : i \in DOMAIN attributes}
                = {r \in schemas : r.product_id = productId}
           /\ \A i \in DOMAIN attributes, j \in DOMAIN attributes :
                i < j =>
                  \/ attributes[i].sort_order < attributes[j].sort_order
                  \/ /\ attributes[i].sort_order = attributes[j].sort_order
                     /\ attributes[i].created_at < attributes[j].created_at
           /\ schemas' = schemas
           /\ (/\ last.op = "getProductAttributes"
               /\ last.error = ""
               /\ ~last.raised
               /\ \E i \in DOMAIN last.data.attributes :
                    last.data.attributes[i].product_id = productId)
                => attributes = last.data.attributes]_vars

\* a list of two rows was returned in which the row created later comes
\* first
C14_Witness ==
  /\ last.op = "getProductAttributes"
  /\ Len(last.data.attributes) = 2
  /\ last.data.attributes[1].created_at > last.data.attributes[2].created_at

\* C15: getProductAttributes, getProductAttributeById and
\* getAttributeCombinations always return and never change the table; when
\* the select fails or no row matches they return [], null and {}.
C15_ReadDegradation ==
  [][/\ last'.op = "getProductAttributes" =>
          /\ ~last'.raised
          /\ schemas' = schemas
          /\ \A productId \in ProductIds, fails \in BOOLEAN :
               (/\ getProductAttributes(productId, fails)
                /\ fails \/ ~\E r \in schemas : r.product_id = productId)
                 => last'.data.attributes = <<>>
     /\ last'.op = "getProductAttributeById" =>
          /\ ~last'.raised
          /\ schemas' = schemas
          /\ \A attributeId \in 1..(MaxRows + 1), fails \in BOOLEAN :
               (/\ getProductAttributeById(attributeId, fails)
                /\ fails \/ byId(attributeId) = {})
                 => ~Found(last'.data.attribute)
     /\ last'.op = "getAttributeCombinations" =>
          /\ ~last'.raised
          /\ schemas' = schemas
          /\ \A productId \in ProductIds, fails \in BOOLEAN :
               (/\ getAttributeCombinations(productId, fails)
                /\ fails \/ ~\E r \in schemas : r.product_id = productId)
                 => DOMAIN last'.data.combinations = {}]_vars

(***************************************************************************)
(* SpecOrder: the owner creates and deletes rows of product 1 and calls    *)
(* updateAttributeOrder with lists that may name an id without a row; any  *)
(* store call may fail.                                                    *)
(***************************************************************************)
OrderCreate ==
  /\ nextId <= MaxRows
  /\ \E k \in Keys, fault \in CreateFaults :
       createProductAttribute(KeyCreateInput(1, k), fault)

OrderDelete ==
  \E id \in 1..MaxRows, fault \in DeleteFaults : deleteProductAttribute(id, fault)

\* lists that name ids in increasing order, each at most once
ReorderLists ==
  {attributeOrders :
     attributeOrders \in
       {l \in OrderLists :
          \A i \in DOMAIN l, j \in DOMAIN l : i < j => l[i].id < l[j].id}}

OrderReorder ==
  \E attributeOrders \in ReorderLists :
    \E failing \in SUBSET DOMAIN attributeOrders :
      updateAttributeOrder(attributeOrders, failing)

NextOrder == OrderCreate \/ OrderDelete \/ OrderReorder

SpecOrder == InitReads /\ [][NextOrder]_vars

\* C16: updateAttributeOrder returns success:true only when every listed
\* id has a row; when one of its updates fails or names an id without a row
\* it returns success:false.
C16_ReorderReportsFailure ==
  [][last'.op = "updateAttributeOrder" =>
       \A attributeOrders \in ReorderLists :
       \A failing \in SUBSET DOMAIN attributeOrders :
         updateAttributeOrder(attributeOrders, failing) =>
           /\ last'.success
                => \A i \in DOMAIN attributeOrders :
                     byId(attributeOrders[i].id) # {}
           /\ (\/ failing \cap DOMAIN attributeOrders # {}
               \/ \E i \in DOMAIN attributeOrders :
                    byId(attributeOrders[i].id) = {})
                => ~last'.success]_vars

\* C17: when one of the updates of updateAttributeOrder fails, the action
\* returns success:false with 'Failed to update attribute order' and every
\* row named by an update that went through has a sort_order one of those
\* updates sent: nothing is rolled back.  (For each list and each set of
\* failing updates: the step has this outcome, or it is not a step of
\* that call.)
C17_ReorderNoRollback ==
  [][last'.op = "updateAttributeOrder" =>
       \A attributeOrders \in ReorderLists :
         \A failing \in SUBSET DOMAIN attributeOrders :
           failing # {} =>
             \/ /\ ~last'.success
                /\ last'.error = ErrOrder
                /\ \A r \in schemas :
                     LET sent == {attributeOrders[i].sort_order :
                                    i \in {j \in DOMAIN attributeOrders \ failing :
                                             attributeOrders[j].id = r.id}}
                     IN sent # {} =>
                          \E r2 \in schemas' : r2.id = r.id /\ r2.sort_order \in sent
             \/ ~updateAttributeOrder(attributeOrders, failing)]_vars

\* the action reported failure and one of two rows has the sort_order of
\* the list, the other the default it was created with
C17_Witness ==
  /\ last.op = "updateAttributeOrder"
  /\ ~last.success
  /\ \E r1 \in schemas, r2 \in schemas :
       /\ r1.id = 1 /\ r1.sort_order = 1
       /\ r2.id = 2 /\ r2.sort_order = 0

(***************************************************************************)
(* Create and Delete as the two steps they are when requests interleave:   *)
(* the selects up to the last check, then the write.  Each await of the    *)
(* source lets another request run; the store calls before the write only  *)
(* read, so they are one step here.                                        *)
(***************************************************************************)
\* lines 35-71: the ownership select, auth.getUser and the uniqueness
\* select; the request goes on to its insert when all checks pass
createChecks(c, data) ==
  LET op == "createProductAttribute"
      existingAttribute == single(byProductKey(data.product_id, data.attribute_key))
      message ==
        IF data.product_id \notin Products THEN ErrProduct
        ELSE IF session = NoUser \/ brandUserId(data.product_id) # session
          THEN ErrUnauthorized
        ELSE IF Found(existingAttribute) THEN ErrKeyExists
        ELSE ""
  IN
  /\ requests[c].pc = "idle"
  /\ IF message # "" THEN
       /\ last' = Fail(op, message)
       /\ UNCHANGED requests
     ELSE
       /\ requests' = [requests EXCEPT ![c] = [Idle EXCEPT !.pc = "insert", !.data = data]]
       /\ UNCHANGED last
  /\ UNCHANGED <<schemas, nextId, variants, session>>

\* the insert when (product_id, attribute_key) is UNIQUE in the table
createInsertUnique(c) ==
  LET data == requests[c].data IN
  /\ requests[c].pc = "insert"
  /\ requests' = [requests EXCEPT ![c] = Idle]
  /\ IF byProductKey(data.product_id, data.attribute_key) # {} THEN
       /\ last' = Fail("createProductAttribute", ErrStore)
       /\ UNCHANGED <<schemas, nextId, variants, session>>
     ELSE
       /\ schemas' = schemas \cup {insertRow(data)}
       /\ nextId' = nextId + 1
       /\ last' = Ok("createProductAttribute")
       /\ UNCHANGED <<variants, session>>

\* lines 74-98: the insert and the return
createInsert(c) ==
  /\ requests[c].pc = "insert"
  /\ requests' = [requests EXCEPT ![c] = Idle]
  /\ schemas' = schemas \cup {insertRow(requests[c].data)}
  /\ nextId' = nextId + 1
  /\ last' = Ok("createProductAttribute")
  /\ UNCHANGED <<variants, session>>

\* lines 195-241: the select of the row with its ownership chain,
\* auth.getUser, the variants select and the in-use check
deleteChecks(c, attributeId) ==
  LET op == "deleteProductAttribute"
      attribute == single(byId(attributeId))
      message ==
        IF ~Found(attribute) THEN ErrAttribute
        ELSE IF session = NoUser \/ brandUserId(attribute.product_id) # session
          THEN ErrUnauthorized
        ELSE IF attributeInUse(variants, attribute) THEN ErrInUse
        ELSE ""
  IN
  /\ requests[c].pc = "idle"
  /\ IF message # "" THEN
       /\ last' = Fail(op, message)
       /\ UNCHANGED requests
     ELSE
       /\ requests' = [requests EXCEPT
                         ![c] = [Idle EXCEPT !.pc = "delete", !.attribute = attribute]]
       /\ UNCHANGED last
  /\ UNCHANGED <<schemas, nextId, variants, session>>

\* lines 244-255: .delete().eq('id', attributeId) and the return
deleteWrite(c) ==
  /\ requests[c].pc = "delete"
  /\ requests' = [requests EXCEPT ![c] = Idle]
  /\ schemas' = {r \in schemas : r.id # requests[c].attribute.id}
  /\ last' = Ok("deleteProductAttribute")
  /\ UNCHANGED <<nextId, variants, session>>

(***************************************************************************)
(* SpecRace: two requests of the owner run createProductAttribute and      *)
(* deleteProductAttribute on product 1 step by step, in any interleaving,  *)
(* while the variant actions write product_variants; no store call fails.  *)
(***************************************************************************)
RaceVariantTables ==
  { {},
    {[id |-> 1, product_id |-> 1, attributes |-> [k \in {"color"} |-> "S"]]} }

\* the inserts that requests in flight will make
pendingInserts == Cardinality({c \in Callers : requests[c].pc = "insert"})

RaceCreateChecks ==
  /\ nextId + pendingInserts <= MaxRows
  /\ \E c \in Callers, k \in Keys : createChecks(c, KeyCreateInput(1, k))

RaceCreateInsert == \E c \in Callers : createInsert(c)

RaceDeleteChecks == \E c \in Callers, id \in 1..MaxRows : deleteChecks(c, id)

RaceDeleteWrite == \E c \in Callers : deleteWrite(c)

RaceVariants ==
  /\ \E table \in RaceVariantTables : writeVariants(table)
  /\ UNCHANGED requests

NextRace ==
  \/ RaceCreateChecks \/ RaceCreateInsert
  \/ RaceDeleteChecks \/ RaceDeleteWrite
  \/ RaceVariants

SpecRace == InitReads /\ [][NextRace]_vars

\* C18: the insert of a createProductAttribute whose uniqueness check
\* passed adds its row also when another request has stored a row of the
\* same (product_id, attribute_key) since the check, so two interleaved
\* creates of one key both succeed and leave two rows of that key; and a
\* table without duplicate keys gets one only by such an insert.
C18_CreateRace ==
  [][/\ \A c \in Callers :
          (createInsert(c) /\ requests[c].pc = "insert")
            => /\ last'.success
               /\ \E r \in schemas' \ schemas :
                    /\ r.product_id = requests[c].data.product_id
                    /\ r.attribute_key = requests[c].data.attribute_key
                    /\ schemas' = schemas \cup {r}
     /\ (NoDuplicateKeys /\ ~NoDuplicateKeys')
          => \E c \in Callers :
               /\ requests[c].pc = "insert"
               /\ requests'[c].pc = "idle"
               /\ byProductKey(requests[c].data.product_id,
                               requests[c].data.attribute_key) # {}]_vars

\* two creates have succeeded and product 1 has two rows of one key
C18_Witness ==
  /\ last.op = "createProductAttribute"
  /\ last.success
  /\ \E r1 \in schemas, r2 \in schemas :
       /\ r1.id # r2.id
       /\ r1.product_id = r2.product_id
       /\ r1.attribute_key = r2.attribute_key

\* C19: when deleteProductAttribute removes a row, no variant of the row's
\* product has the row's key in its attributes, whatever the variant
\* actions wrote while the delete was in flight.
C19_DeleteRace ==
  [][\A c \in Callers :
       (deleteWrite(c) /\ requests[c].pc = "delete")
         => ~attributeInUse(variants, requests[c].attribute)]_vars

(***************************************************************************)
(* SpecDefaults: the owner creates rows of product 1, giving any subset of *)
(* the optional fields options, is_required, is_variant_defining and       *)
(* sort_order; no store call fails.                                        *)
(***************************************************************************)
OptionalFields == {"options", "is_required", "is_variant_defining", "sort_order"}

DefaultsInputs ==
  {[Input(0, 1, k, opts, {"product_id", "attribute_key"} \cup given)
      EXCEPT !.is_required = req, !.is_variant_defining = def, !.sort_order = n] :
     k \in Keys, opts \in {Arr(<<Opt("S", "Small")>>), JsonNull},
     req \in BOOLEAN, def \in BOOLEAN, n \in {1},
     given \in SUBSET OptionalFields}

DefaultsCreate ==
  /\ nextId <= MaxRows
  /\ \E data \in DefaultsInputs : createProductAttribute(data, "none")

NextDefaults == DefaultsCreate

SpecDefaults == InitReads /\ [][NextDefaults]_vars

\* C22: a successful createProductAttribute stores options [] when options
\* is not given, is_required false, is_variant_defining true and sort_order
\* 0 when these are not given, and is_variant_defining false when false is
\* given; the fields that are given are stored as given.
C22_CreateDefaults ==
  [][(last'.op = "createProductAttribute" /\ last'.success) =>
       \A data \in DefaultsInputs :
         createProductAttribute(data, "none") =>
           \E r \in schemas' \ schemas :
             /\ schemas' = schemas \cup {r}
             /\ ~Has(data, "options") => r.options = Arr(<<>>)
             /\ ~Has(data, "is_required") => r.is_required = FALSE
             /\ ~Has(data, "is_variant_defining") => r.is_variant_defining = TRUE
             /\ ~Has(data, "sort_order") => r.sort_order = 0
             /\ (Has(data, "is_variant_defining") /\ ~data.is_variant_defining)
                  => r.is_variant_defining = FALSE
             /\ (Has(data, "options") /\ ~data.options.isNull)
                  => r.options = data.options
             /\ Has(data, "is_required") => r.is_required = data.is_required
             /\ Has(data, "sort_order") => r.sort_order = data.sort_order]_vars

\* a create has stored a row that has the defaults except for
\* is_variant_defining, which is false
C22_Witness ==
  /\ last.op = "createProductAttribute"
  /\ last.success
  /\ \E r \in schemas :
       /\ r.id = nextId - 1
       /\ r.options = Arr(<<>>)
       /\ ~r.is_required
       /\ ~r.is_variant_defining
       /\ r.sort_order = 0

(***************************************************************************)
(* SpecCombos: the owner creates rows of both products whose key may be an *)
(* array index, with options, is_variant_defining and sort_order given,    *)
(* and may store null options through Update; getAttributeCombinations is  *)
(* called and what it returns is passed to generateVariantCombinations; no *)
(* store call fails.                                                       *)
(***************************************************************************)
ComboKeys == {"color", "size", "1"}

ComboOptions ==
  { Arr(<<>>),
    Arr(<<Opt("S", "Small")>>),
    Arr(<<Opt("M", "Medium"), Opt("S", "Small")>>) }

ComboCreateInputs ==
  {[Input(0, p, k, opts,
          {"product_id", "attribute_key", "options", "is_variant_defining",
           "sort_order"})
      EXCEPT !.is_variant_defining = def, !.sort_order = n] :
     p \in Products, k \in ComboKeys, opts \in ComboOptions,
     def \in BOOLEAN, n \in SortOrders}

CombosCreate ==
  /\ nextId <= MaxRows
  /\ \E data \in ComboCreateInputs : createProductAttribute(data, "none")

CombosUpdate ==
  \E data \in ReadUpdateInputs : updateProductAttribute(data, "none")

CombosGet ==
  \E productId \in ProductIds : getAttributeCombinations(productId, FALSE)

CombosGenerate ==
  /\ last.op = "getAttributeCombinations"
  /\ generateVariantCombinations(last.data.combinations)

NextCombos == CombosCreate \/ CombosUpdate \/ CombosGet \/ CombosGenerate

SpecCombos == InitReads /\ [][NextCombos]_vars

\* the rows of a product
schemasOf(productId) == {r \in schemas : r.product_id = productId}

\* C23: getAttributeCombinations(productId), its select not failing,
\* returns a Record whose keys are exactly the attribute_keys of the
\* product's rows, each with the values of that row's options in stored
\* order, and Object.keys of it lists the keys in the order of
\* getProductAttributes (sort_order, then created_at).
C23_CombinableOptions ==
  [][last'.op = "getAttributeCombinations" =>
       \A productId \in ProductIds :
         getAttributeCombinations(productId, FALSE) =>
           LET combinations == last'.data.combinations
               attributes == selectAttributes(productId)
           IN
           /\ {combinations[i].key : i \in DOMAIN combinations}
                = {r.attribute_key : r \in schemasOf(productId)}
           /\ \A i \in DOMAIN combinations, r \in schemasOf(productId) :
                r.attribute_key = combinations[i].key
                  => /\ ~r.options.isNull
                     /\ combinations[i].values = valuesOf(r.options)
           /\ ObjectKeys(combinations)
                = [i \in DOMAIN attributes |-> attributes[i].attribute_key]]_vars

\* the product of the numbers of options of the rows
RECURSIVE numberOfCombinations(_)
numberOfCombinations(rows) ==
  IF rows = {} THEN 1
  ELSE LET r == CHOOSE x \in rows : TRUE
       IN Len(r.options.items) * numberOfCombinations(rows \ {r})

\* C24: generateVariantCombinations applied to what
\* getAttributeCombinations(productId) has just returned yields
\* combinations whose keys are exactly the attribute_keys of the product's
\* rows with is_variant_defining true, as many as the product of the
\* numbers of options of these rows.
C24_VariantDefiningOnly ==
  [][(/\ last.op = "getAttributeCombinations"
      /\ last'.op = "generateVariantCombinations"
      /\ generateVariantCombinations(last.data.combinations))
       => \A productId \in ProductIds :
            last.data.combinations = combinationsOf(selectAttributes(productId))
              => LET generated == last'.data.generated
                     defining == {r \in schemasOf(productId) : r.is_variant_defining}
                 IN
                 /\ \A i \in DOMAIN generated :
                      DOMAIN generated[i] = {r.attribute_key : r \in defining}
                 /\ Len(generated) = numberOfCombinations(defining)]_vars

(***************************************************************************)
(* SpecGenerate: generateVariantCombinations applied to a Record of at     *)
(* most MaxKeys keys, among them the empty string and an array index, each *)
(* with a sequence of values that may be empty or repeat a value.          *)
(***************************************************************************)
GenerateKeys == {"color", "size", "", "1"}

GenerateValues ==
  { <<>>, <<"S">>, <<"S", "S">>, <<"M", "S">>, <<"red", "blue">>,
    <<"S", "M", "L">> }

\* the object a caller builds by setting its properties one after the other
RECURSIVE recordOf(_)
recordOf(properties) ==
  IF properties = <<>> THEN <<>>
  ELSE LET n == Len(properties) IN
       setProperty(recordOf(SubSeq(properties, 1, n - 1)),
                   properties[n].key, properties[n].values)

GenerateInputs ==
  {recordOf(properties) :
     properties \in SeqsUpTo([key : GenerateKeys, values : GenerateValues], MaxKeys)}

\* the caller holds the Record it is going to pass
InitGenerate ==
  /\ schemas = {}
  /\ nextId = 1
  /\ variants = {}
  /\ session = NoUser
  /\ last \in {Returned("none", [NoData EXCEPT !.combinations = attributes], "") :
                 attributes \in GenerateInputs}
  /\ requests = [c \in Callers |-> Idle]

Generate ==
  /\ last.op = "none"
  /\ generateVariantCombinations(last.data.combinations)

NextGenerate == Generate

SpecGenerate == InitGenerate /\ [][NextGenerate]_vars

\* the product of the lengths of the value sequences of a Record
RECURSIVE productOfLengths(_)
productOfLengths(attributes) ==
  IF attributes = <<>> THEN 1
  ELSE Len(Head(attributes).values) * productOfLengths(Tail(attributes))

\* C25: generateVariantCombinations returns as many results as the product
\* of the lengths of the value sequences of its argument, whatever the
\* keys are (the empty string included): the empty mapping alone for a
\* Record without keys, and nothing when some key has no values.
C25_CombinationCount ==
  last.op = "generateVariantCombinations" =>
    LET attributes == last.data.combinations
        generated == last.data.generated
    IN
    /\ Len(generated) = productOfLengths(attributes)
    /\ attributes = <<>> => generated = << <<>> >>
    /\ (\E d \in DOMAIN attributes : attributes[d].values = <<>>)
         => generated = <<>>

\* the values of a sequence
Range(seq) == {seq[i] : i \in DOMAIN seq}

\* no value occurs twice in the sequence
Distinct(seq) == \A i \in DOMAIN seq, j \in DOMAIN seq : seq[i] = seq[j] => i = j

\* the mappings that give every key of the Record one of its values
totalAssignments(attributes) ==
  {f \in [Range(ObjectKeys(attributes)) ->
            UNION {Range(attributes[d].values) : d \in DOMAIN attributes}] :
     \A d \in DOMAIN attributes : f[attributes[d].key] \in Range(attributes[d].values)}

\* C26: when no value sequence of the argument repeats a value, the
\* results of generateVariantCombinations are exactly the mappings that
\* give every key one of its values, each of them once.
C26_CombinationCompleteness ==
  (/\ last.op = "generateVariantCombinations"
   /\ \A d \in DOMAIN last.data.combinations :
        Distinct(last.data.combinations[d].values))
    => /\ Range(last.data.generated) = totalAssignments(last.data.combinations)
       /\ Distinct(last.data.generated)

\* C27: the results of generateVariantCombinations come in the order of an
\* odometer over the keys in the order of Object.keys, the last key turning
\* fastest and every key going through its values in their order: the
\* i-th result gives the d-th key the value the odometer shows for it.
C27_CombinationOrder ==
  last.op = "generateVariantCombinations" =>
    LET attributes == last.data.combinations
        generated == last.data.generated
        \* the results in which the keys after the d-th go round once
        stride(d) == productOfLengths(SubSeq(attributes, d + 1, Len(attributes)))
    IN
    \A i \in DOMAIN generated :
      /\ DOMAIN generated[i] = Range(ObjectKeys(attributes))
      /\ \A d \in DOMAIN attributes :
           generated[i][attributes[d].key]
             = attributes[d].values[
                 (((i - 1) \div stride(d)) % Len(attributes[d].values)) + 1]

\* a result of the example: { color, size }
Combination(color, size) ==
  [k \in {"color", "size"} |-> IF k = "color" THEN color ELSE size]

\* {color: [red, blue], size: [S, M, L]} has given (red,S), (red,M),
\* (red,L), (blue,S), (blue,M), (blue,L)
C27_Witness ==
  /\ last.op = "generateVariantCombinations"
  /\ last.data.combinations
       = << [key |-> "color", values |-> <<"red", "blue">>],
            [key |-> "size", values |-> <<"S", "M", "L">>] >>
  /\ last.data.generated
       = << Combination("red", "S"), Combination("red", "M"),
            Combination("red", "L"), Combination("blue", "S"),
            Combination("blue", "M"), Combination("blue", "L") >>

(***************************************************************************)
(* SpecRefusals: the owner calls Create, Update, Delete, AddOption and     *)
(* RemoveOption on rows of product 1 and on a product without a row; every *)
(* check can refuse and every store call can fail; Update changes the key  *)
(* or stores null options; the variant table is the same throughout a      *)
(* behaviour.                                                              *)
(***************************************************************************)
RefusalsCreateInputs ==
  {Input(0, p, k, Arr(<<Opt("S", "Small")>>),
         {"product_id", "attribute_key", "options"}) :
     p \in {1, 3}, k \in Keys}

RefusalsCreate ==
  /\ nextId <= MaxRows
  /\ \E data \in RefusalsCreateInputs, fault \in CreateFaults :
       createProductAttribute(data, fault)

RefusalsUpdate ==
  \E data \in FaultUpdateInputs, fault \in UpdateFaults :
    updateProductAttribute(data, fault)

RefusalsDelete ==
  \E id \in 1..MaxRows, fault \in DeleteFaults : deleteProductAttribute(id, fault)

RefusalsAdd ==
  \E id \in 1..MaxRows, fault \in AddFaults :
    addAttributeOption(id, Opt("S", "Small"), fault)

RefusalsRemove ==
  \E id \in 1..MaxRows, fault \in RemoveFaults :
    removeAttributeOption(id, "S", fault)

NextRefusals ==
  \/ RefusalsCreate \/ RefusalsUpdate \/ RefusalsDelete
  \/ RefusalsAdd \/ RefusalsRemove

SpecRefusals == InitFaults /\ [][NextRefusals]_vars

\* the actions that make a single write after their checks
SingleWriteActions ==
  { "createProductAttribute", "updateProductAttribute", "deleteProductAttribute",
    "addAttributeOption", "removeAttributeOption" }

\* C28: a call of Create, Update, Delete, AddOption or RemoveOption that
\* returns success:false leaves product_attribute_schemas as it was before
\* the call, whichever check refused it or store call failed.
C28_FailureWritesNothing ==
  [][(last'.op \in SingleWriteActions /\ ~last'.success)
       => schemas' = schemas /\ nextId' = nextId]_vars

\* a delete was refused for a variant that uses the key, and the row is
\* in the table
C28_Witness ==
  /\ last.op = "deleteProductAttribute"
  /\ last.error = ErrInUse
  /\ \E r \in schemas : attributeInUse(variants, r)

(***************************************************************************)
(* SpecFrame: the owner creates rows of product 1, adds and removes the    *)
(* option 'S' and reorders the rows with lists that name each id once; no  *)
(* store call fails; the variant table is the same throughout a behaviour. *)
(***************************************************************************)
FrameReorder ==
  \E attributeOrders \in ReorderLists : updateAttributeOrder(attributeOrders, {})

NextFrame == Create \/ AddOption \/ RemoveOption \/ FrameReorder

SpecFrame == InitFaults /\ [][NextFrame]_vars

\* every row of the table before has a row after that differs from it at
\* most in the given field, and there are no other rows
OnlyFieldChanges(field) ==
  /\ \A r \in schemas : \E r2 \in schemas' :
       r2 = [r EXCEPT ![field] = r2[field]]
  /\ Cardinality(schemas') = Cardinality(schemas)
  /\ variants' = variants
  /\ nextId' = nextId

\* C29: addAttributeOption and removeAttributeOption change nothing but
\* the options of the row they are called for, and updateAttributeOrder
\* nothing but the sort_order of the rows its list names, which get the
\* listed value when the list names each id once; all other rows and
\* fields, the ids and the variant table stay as they are.
C29_TargetedWrites ==
  [][/\ last'.op \in {"addAttributeOption", "removeAttributeOption"} =>
          /\ OnlyFieldChanges("options")
          /\ \A id \in 1..MaxRows :
               (\/ addAttributeOption(id, Opt("S", "Small"), "none")
                \/ removeAttributeOption(id, "S", "none"))
                 => \A r \in schemas : r.id # id => r \in schemas'
     /\ last'.op = "updateAttributeOrder" =>
          /\ OnlyFieldChanges("sort_order")
          /\ \A attributeOrders \in ReorderLists :
               \/ \A r \in schemas :
                    LET listed == {i \in DOMAIN attributeOrders :
                                     attributeOrders[i].id = r.id}
                    IN IF listed = {} THEN r \in schemas'
                       ELSE \A i \in listed :
                              [r EXCEPT !.sort_order = attributeOrders[i].sort_order]
                                \in schemas'
               \/ ~updateAttributeOrder(attributeOrders, {})]_vars

\* of two rows, a reorder has given row 1 the sort_order 1 and left row 2
\* its own, and an add has then given row 2 its option
C29_Witness ==
  /\ last.op = "addAttributeOption"
  /\ last.success
  /\ \E r1 \in schemas, r2 \in schemas :
       /\ r1.id = 1 /\ r1.sort_order = 1 /\ r1.options = Arr(<<>>)
       /\ r2.id = 2 /\ r2.sort_order = 0
       /\ r2.options = Arr(<<Opt("S", "Small")>>)

(***************************************************************************)
(* AddOption and RemoveOption as the two steps they are when requests      *)
(* interleave: the select of the row with the checks on what it returned,  *)
(* then the update that writes the whole recomputed array.  In between,    *)
(* requests[c].attribute is the row as it was read and requests[c].data    *)
(* the update to make: { options: updatedOptions } for the id.             *)
(***************************************************************************)
\* lines 364-386: the select, the duplicate check and updatedOptions
addFetch(c, attributeId, option) ==
  LET op == "addAttributeOption"
      attribute == single(byId(attributeId))
      existingOptions == attribute.options.items
      message ==
        IF ~Found(attribute) THEN ErrNotFound
        ELSE IF attribute.options.isNull THEN ErrTypeError
        ELSE IF optionExists(existingOptions, option) THEN ErrOptionExists
        ELSE ""
  IN
  /\ requests[c].pc = "idle"
  /\ IF message # "" THEN
       /\ last' = Fail(op, message)
       /\ UNCHANGED requests
     ELSE
       /\ requests' =
            [requests EXCEPT
               ![c] = [pc |-> "addWrite",
                       data |-> Input(attributeId, attribute.product_id,
                                      attribute.attribute_key,
                                      Arr(appendOption(existingOptions, option)),
                                      {"options"}),
                       attribute |-> attribute]]
       /\ UNCHANGED last
  /\ UNCHANGED <<schemas, nextId, variants, session>>

\* .update({ options: updatedOptions }).eq('id', attributeId)
updateOptions(data) ==
  {IF r.id = data.id THEN [r EXCEPT !.options = data.options] ELSE r : r \in schemas}

\* lines 388-399: the update and the return
addWrite(c) ==
  /\ requests[c].pc = "addWrite"
  /\ requests' = [requests EXCEPT ![c] = Idle]
  /\ schemas' = updateOptions(requests[c].data)
  /\ last' = Ok("addAttributeOption")
  /\ UNCHANGED <<nextId, variants, session>>

\* lines 416-450: the select, updatedOptions, the variants select and the
\* in-use check
removeFetch(c, attributeId, optionValue) ==
  LET op == "removeAttributeOption"
      attribute == single(byId(attributeId))
      existingOptions == attribute.options.items
      updatedOptions == filterOut(existingOptions, optionValue)
      message ==
        IF ~Found(attribute) THEN ErrNotFound
        ELSE IF attribute.options.isNull THEN ErrTypeError
        ELSE IF Len(updatedOptions) = Len(existingOptions) THEN ErrOptionNotFound
        ELSE IF optionInUse(variants, attribute, optionValue) THEN ErrOptionInUse
        ELSE ""
  IN
  /\ requests[c].pc = "idle"
  /\ IF message # "" THEN
       /\ last' = Fail(op, message)
       /\ UNCHANGED requests
     ELSE
       /\ requests' =
            [requests EXCEPT
               ![c] = [pc |-> "removeWrite",
                       data |-> Input(attributeId, attribute.product_id,
                                      attribute.attribute_key,
                                      Arr(updatedOptions), {"options"}),
                       attribute |-> attribute]]
       /\ UNCHANGED last
  /\ UNCHANGED <<schemas, nextId, variants, session>>

\* lines 452-463: the update and the return
removeWrite(c) ==
  /\ requests[c].pc = "removeWrite"
  /\ requests' = [requests EXCEPT ![c] = Idle]
  /\ schemas' = updateOptions(requests[c].data)
  /\ last' = Ok("removeAttributeOption")
  /\ UNCHANGED <<nextId, variants, session>>

(***************************************************************************)
(* SpecOptionRace: the owner creates rows of product 1 and two requests    *)
(* run addAttributeOption and removeAttributeOption step by step, in any   *)
(* interleaving; no store call fails and there are no variants.            *)
(***************************************************************************)
RaceAddFetch ==
  \E c \in Callers, id \in 1..MaxRows, option \in OptionInputs :
    addFetch(c, id, option)

RaceAddWrite == \E c \in Callers : addWrite(c)

RaceRemoveFetch ==
  \E c \in Callers, id \in 1..MaxRows, optionValue \in Values :
    removeFetch(c, id, optionValue)

RaceRemoveWrite == \E c \in Callers : removeWrite(c)

NextOptionRace ==
  \/ Create
  \/ RaceAddFetch \/ RaceAddWrite
  \/ RaceRemoveFetch \/ RaceRemoveWrite

SpecOptionRace == InitReads /\ [][NextOptionRace]_vars

\* C30: the write of an addAttributeOption or removeAttributeOption that
\* returns success changes, in the options stored when it is made, only
\* the value the call adds or removes: a value another call has added
\* since this call read the row is still there afterwards, and a value
\* another call has removed is still gone, so that after two interleaved
\* calls the options show the effect of both.
C30_NoLostOptionUpdate ==
  [][\A c \in Callers :
       ((addWrite(c) \/ removeWrite(c))
        /\ requests[c].pc \in {"addWrite", "removeWrite"})
         => \A row \in byId(requests[c].data.id) :
              \E row2 \in schemas' :
                /\ row2.id = row.id
                /\ \A v \in Values :
                     \* the call neither adds nor removes v
                     (HasValue(requests[c].attribute.options, v)
                        = HasValue(requests[c].data.options, v))
                       => (HasValue(row2.options, v) = HasValue(row.options, v))]_vars

====
